---- MODULE Spec2Model ----
(***************************************************************************)
(* Xvector<T, Alloc> of src/Xvector.hpp as a state machine.                *)
(*                                                                         *)
(* The object's fields are data, xvector_size and xvector_capacity.  The   *)
(* allocator (std::allocator<T>) is the environment: block_n is the slot   *)
(* count the block at data was allocated with, leaked the number of blocks *)
(* that were allocated, never deallocated, and that no pointer refers to   *)
(* any more.  mem holds the cells data[0] .. data[xvector_size - 1]: no    *)
(* member reads a cell at or past xvector_size before it stores to it      *)
(* (the one exception, push_back(T&&) on an empty vector, is modelled as   *)
(* the read of an indeterminate value that it is).                         *)
(*                                                                         *)
(* The element type is an assignable value type: data[i] = x stores x.     *)
(* A cell of a freshly allocated block holds an indeterminate value, and a *)
(* store past the end of a block is undefined behaviour: in both cases the *)
(* cell holds any value (a nondeterministic choice).                       *)
(*                                                                         *)
(* call, result, ret and events observe the last public call: what was     *)
(* called, how it ended, what it returned, and the allocator calls,        *)
(* element stores, element destructions and field assignments it made, in  *)
(* program order.  appended observes the values given to push_back(const   *)
(* T&) while no other member has been called since construction.           *)
(*                                                                         *)
(* main of src/main.cpp is the second specification, SpecMain: infile is   *)
(* the token file and the stream's position in it, outfile what has been   *)
(* written, pc where main stands and it the position of the range-for      *)
(* iterator.  Under Spec no main runs and these four never change.         *)
(***************************************************************************)
EXTENDS Naturals, Integers, Sequences, FiniteSets

VARIABLES data, xvector_size, xvector_capacity,
          mem, block_n, leaked, alive,
          call, result, ret, events, appended,
          infile, outfile, pc, it

\* The vector, the heap and the observation of the last call.
xvector_vars == <<data, xvector_size, xvector_capacity, mem, block_n, leaked, alive,
                  call, result, ret, events, appended>>

\* What main adds: its files, its position and its iterator.
main_vars == <<infile, outfile, pc, it>>

vars == <<xvector_vars, main_vars>>

\* ---------------------------------------------------------------- bounds

\* Largest capacity (and so size) the model lets the vector take.
MaxCap == 4
\* Largest number of leaked blocks the model counts.
MaxLeaked == 1
\* Largest number of tokens in the file main reads.
MaxTokens == 3

\* ------------------------------------------------------------ the domain

\* nullptr.
Null == 0
\* T(): the value-initialised element.
DefaultT == 0
\* The element values.
Values == {0, 1}
\* No value (nothing returned).
NoValue == -1
\* The positions and sizes a caller passes.
Positions == 0 .. (MaxCap + 1)
Sizes == 0 .. MaxCap
\* '\n', the separator main writes (its character code).
Newline == 10
\* The token files main can be given.
TokenFiles == UNION {[1 .. n -> Values] : n \in 0 .. MaxTokens}

\* ---------------------------------------------------------------- events

EvAllocate(b, n) == [k |-> "allocate", b |-> b, n |-> n, m |-> n]
EvBadAlloc(n) == [k |-> "bad_alloc", b |-> Null, n |-> n, m |-> 0]
\* deallocate(b, n) of a block that was allocated with m slots.
EvDeallocate(b, n, m) == [k |-> "deallocate", b |-> b, n |-> n, m |-> m]
\* b[i] = ..., b a block allocated with m slots.
EvWrite(b, i, m) == [k |-> "write", b |-> b, n |-> i, m |-> m]
\* b[i].~T(), b a block allocated with m slots.
EvDestroy(b, i, m) == [k |-> "destroy", b |-> b, n |-> i, m |-> m]
EvSetData(b) == [k |-> "set_data", b |-> b, n |-> 0, m |-> 0]
EvSetSize(n) == [k |-> "set_size", b |-> Null, n |-> n, m |-> 0]
EvSetCapacity(n) == [k |-> "set_capacity", b |-> Null, n |-> n, m |-> 0]

\* The stores of for (i = lo; i < hi; i++) b[i] = ...
WriteLoop(b, lo, hi, m) ==
    IF hi > lo THEN [j \in 1 .. (hi - lo) |-> EvWrite(b, lo + j - 1, m)] ELSE << >>

\* ------------------------------------------------------------- the state

Constructed ==
    /\ data = Null
    /\ xvector_size = 0
    /\ xvector_capacity = 0
    /\ mem = << >>
    /\ block_n = 0
    /\ leaked = 0
    /\ alive = TRUE
    /\ call = [op |-> "Xvector", pos |-> 0, x |-> NoValue]
    /\ result = "ok"
    /\ ret = NoValue
    /\ events = << >>
    /\ appended = [only |-> TRUE, xs |-> << >>]

\* A vector on its own: no main is running.
Init ==
    /\ Constructed
    /\ infile = [words |-> << >>, pos |-> 0]
    /\ outfile = << >>
    /\ pc = "none"
    /\ it = 0

\* for (i = 0; i < _capacity; i++) _data[i].~T();
destroy_elems(_data, _capacity, m) ==
    IF _capacity > 0 THEN [j \in 1 .. _capacity |-> EvDestroy(_data, j - 1, m)] ELSE << >>

empty == xvector_size = 0

size == xvector_size

capacity == xvector_capacity

\* What iteration from begin() to end() yields: *(data + i) for i in [0, size).
Elements == [j \in 1 .. xvector_size |-> mem[j - 1]]

\* The address allocate returns for a new block: not the one of the block in use.
NewAddr == IF data = 1 THEN 2 ELSE 1

\* What a store of x to cell i leaves there, in a block of m slots: x inside the
\* block; past its end the store is undefined behaviour and leaves any value.
Stored(i, x, m) == IF i < m THEN {x} ELSE Values

\* A copy loop that reads old_data[0] at every step.
CopyLoop_first_only(src, n) == [i \in 0 .. (n - 1) |-> src[0]]

\* The cells [0, n) after for (i = 0; i < n; i++) dst[i] = src[i].
CopyLoop(src, n) == [i \in 0 .. (n - 1) |-> src[i]]

\* A call ends: the fields, the heap and the observation of the call.
Ends(d, s, c, me, bn, lk, cl, res, r, ev) ==
    /\ s <= MaxCap
    /\ c <= MaxCap
    /\ lk <= MaxLeaked
    /\ data' = d
    /\ xvector_size' = s
    /\ xvector_capacity' = c
    /\ mem' = me
    /\ block_n' = bn
    /\ leaked' = lk
    /\ alive' = TRUE
    /\ call' = cl
    /\ result' = res
    /\ ret' = r
    /\ events' = ev
    /\ appended' = IF cl.op = "push_back_copy" /\ res = "ok" /\ appended.only
                   THEN [only |-> TRUE, xs |-> Append(appended.xs, cl.x)]
                   ELSE [only |-> FALSE, xs |-> << >>]

\* A call that throws or returns without having changed anything.
Returns(cl, res, r, ev) ==
    Ends(data, xvector_size, xvector_capacity, mem, block_n, leaked, cl, res, r, ev)

\* The leaked blocks once data is overwritten without a deallocate.
LeakedAfterDrop == IF data = Null THEN leaked ELSE leaked + 1

\* if (empty()) of push_back(const T &x)
push_back_copy_first(cl, x) ==
    LET a == NewAddr IN
    \/ Ends(a, xvector_size + 1, xvector_capacity + 1,
            [i \in 0 .. xvector_size |-> x], 1, LeakedAfterDrop, cl, "ok", NoValue,
            << EvAllocate(a, 1), EvSetData(a), EvWrite(a, xvector_size, 1),
               EvSetSize(xvector_size + 1), EvSetCapacity(xvector_capacity + 1) >>)
    \/ Returns(cl, "bad_alloc", NoValue, << EvBadAlloc(1) >>)

\* if (empty()) of push_back(T &&x): data[0] is not stored to.
push_back_move_first(cl, x) ==
    LET a == NewAddr IN
    \/ \E v \in Values :
          Ends(a, xvector_size + 1, xvector_capacity + 1,
               [i \in 0 .. xvector_size |-> v], 1, LeakedAfterDrop, cl, "ok", NoValue,
               << EvAllocate(a, 1), EvSetData(a),
                  EvSetSize(xvector_size + 1), EvSetCapacity(xvector_capacity + 1) >>)
    \/ Returns(cl, "bad_alloc", NoValue, << EvBadAlloc(1) >>)

\* A push_back that forgets to double: the capacity stays what it was.
GrownCapacity_unchanged == xvector_capacity

\* A push_back that grows by one slot instead of doubling.
GrownCapacity_plus_one == xvector_capacity + 1

\* The capacity push_back grows to.
GrownCapacity == xvector_capacity * 2

\* else if (xvector_size == xvector_capacity) of both push_back overloads
push_back_grow(cl, x) ==
    LET cap == GrownCapacity
        a == NewAddr
    IN
    \/ Ends(a, xvector_size + 1, cap,
            [i \in 0 .. xvector_size |->
                IF i < xvector_size THEN CopyLoop(mem, xvector_size)[i] ELSE x],
            cap, leaked, cl, "ok", NoValue,
            << EvSetCapacity(cap), EvAllocate(a, cap), EvSetData(a) >>
            \o WriteLoop(a, 0, xvector_size, cap)
            \o destroy_elems(data, xvector_size, block_n)
            \o << EvDeallocate(data, xvector_size, block_n),
                  EvWrite(a, xvector_size, cap), EvSetSize(xvector_size + 1) >>)
    \/ Ends(data, xvector_size, cap, mem, block_n, leaked, cl, "bad_alloc", NoValue,
            << EvSetCapacity(cap), EvBadAlloc(cap) >>)

\* else of both push_back overloads
push_back_in_place(cl, x) ==
    \E v \in Stored(xvector_size, x, block_n) :
       Ends(data, xvector_size + 1, xvector_capacity,
            [i \in 0 .. xvector_size |-> IF i < xvector_size THEN mem[i] ELSE v],
            block_n, leaked, cl, "ok", NoValue,
            << EvWrite(data, xvector_size, block_n), EvSetSize(xvector_size + 1) >>)

\* push_back(T &&x)
push_back_move(x) ==
    LET cl == [op |-> "push_back_move", pos |-> 0, x |-> x] IN
    /\ alive
    /\ IF empty THEN push_back_move_first(cl, x)
       ELSE IF xvector_size = xvector_capacity THEN push_back_grow(cl, x)
       ELSE push_back_in_place(cl, x)

\* push_back(const T &x)
push_back_copy(x) ==
    LET cl == [op |-> "push_back_copy", pos |-> 0, x |-> x] IN
    /\ alive
    /\ IF empty THEN push_back_copy_first(cl, x)
       ELSE IF xvector_size = xvector_capacity THEN push_back_grow(cl, x)
       ELSE push_back_in_place(cl, x)

\* A pop_back that also gives up the slot it vacates.
pop_back_shrinks ==
    LET cl == [op |-> "pop_back", pos |-> 0, x |-> NoValue] IN
    /\ alive
    /\ IF ~empty /\ data # Null
       THEN Ends(data, xvector_size - 1, xvector_capacity - 1,
                 [i \in 0 .. (xvector_size - 2) |-> mem[i]], block_n, leaked,
                 cl, "ok", NoValue,
                 << EvSetSize(xvector_size - 1), EvSetCapacity(xvector_capacity - 1) >>)
       ELSE Returns(cl, "ok", NoValue, << >>)

\* pop_back()
pop_back ==
    LET cl == [op |-> "pop_back", pos |-> 0, x |-> NoValue] IN
    /\ alive
    /\ IF ~empty /\ data # Null
       THEN Ends(data, xvector_size - 1, xvector_capacity,
                 [i \in 0 .. (xvector_size - 2) |-> mem[i]], block_n, leaked,
                 cl, "ok", NoValue, << EvSetSize(xvector_size - 1) >>)
       ELSE Returns(cl, "ok", NoValue, << >>)

\* clear()
clear ==
    LET cl == [op |-> "clear", pos |-> 0, x |-> NoValue] IN
    /\ alive
    /\ Ends(Null, 0, 0, << >>, 0, leaked, cl, "ok", NoValue,
            destroy_elems(data, xvector_capacity, block_n)
            \o << EvDeallocate(data, xvector_capacity, block_n),
                  EvSetData(Null), EvSetCapacity(0), EvSetSize(0) >>)

\* The guard of erase(pos): true when erase does anything at all.
erase_guard(pos) == ~empty /\ pos > xvector_size

\* erase(size_t pos)
erase(pos) ==
    LET cl == [op |-> "erase", pos |-> pos, x |-> NoValue]
        a == NewAddr
    IN
    /\ alive
    /\ IF erase_guard(pos)
       THEN \/ \E g \in [{i \in 0 .. (xvector_size - 1) : i = pos} -> Values] :
                  Ends(a, xvector_size, xvector_capacity,
                       [i \in 0 .. (xvector_size - 1) |-> IF i # pos THEN mem[i] ELSE g[i]],
                       xvector_capacity, LeakedAfterDrop, cl, "ok", NoValue,
                       << EvAllocate(a, xvector_capacity), EvSetData(a) >>
                       \o WriteLoop(a, 0, xvector_size, xvector_capacity))
            \/ Returns(cl, "bad_alloc", NoValue, << EvBadAlloc(xvector_capacity) >>)
       ELSE Returns(cl, "ok", NoValue, << >>)

\* What allocate(n) returns: a new block; for n = 0 the result is unspecified, and
\* nullptr is one of the values it can be.
AllocResults(n) == {NewAddr} \cup (IF n = 0 THEN {Null} ELSE {})

\* if (!data) of both resize overloads; v is T() or the fill value x.
resize_unallocated(cl, new_size, v) ==
    \/ \E a \in AllocResults(new_size) :
          Ends(a, new_size, new_size, [i \in 0 .. (new_size - 1) |-> v],
               new_size, leaked, cl, "ok", NoValue,
               << EvAllocate(a, new_size), EvSetData(a), EvSetSize(new_size),
                  EvSetCapacity(new_size) >>
               \o WriteLoop(a, 0, new_size, new_size))
    \/ Returns(cl, "bad_alloc", NoValue, << EvBadAlloc(new_size) >>)

\* A truncation that also shrinks the capacity to the new size.
resize_smaller_to_fit(cl, new_size) ==
    Ends(data, new_size, new_size, [i \in 0 .. (new_size - 1) |-> mem[i]],
         block_n, leaked, cl, "ok", NoValue,
         << EvSetSize(new_size), EvSetCapacity(new_size) >>)

\* else if (new_size < xvector_size) of both resize overloads
resize_smaller(cl, new_size) ==
    Ends(data, new_size, xvector_capacity, [i \in 0 .. (new_size - 1) |-> mem[i]],
         block_n, leaked, cl, "ok", NoValue, << EvSetSize(new_size) >>)

\* if (new_size <= xvector_capacity) of both resize overloads
resize_within_capacity(cl, new_size, v) ==
    \E g \in [{i \in xvector_size .. (new_size - 1) : i >= block_n} -> Values] :
       Ends(data, new_size, xvector_capacity,
            [i \in 0 .. (new_size - 1) |->
                IF i < xvector_size THEN mem[i] ELSE IF i < block_n THEN v ELSE g[i]],
            block_n, leaked, cl, "ok", NoValue,
            WriteLoop(data, xvector_size, new_size, block_n)
            \o << EvSetSize(new_size) >>)

\* The capacity resize grows to.
ResizedCapacity(new_size) == new_size

\* else (new_size > xvector_capacity) of both resize overloads
resize_grow(cl, new_size, v) ==
    LET a == NewAddr
        cap == ResizedCapacity(new_size)
    IN
    \/ Ends(a, new_size, cap,
            [i \in 0 .. (new_size - 1) |->
                IF i < xvector_size THEN CopyLoop(mem, xvector_size)[i] ELSE v],
            new_size, leaked, cl, "ok", NoValue,
            << EvAllocate(a, new_size), EvSetData(a) >>
            \o WriteLoop(a, 0, xvector_size, new_size)
            \o destroy_elems(data, xvector_size, block_n)
            \o << EvDeallocate(data, xvector_size, block_n) >>
            \o WriteLoop(a, xvector_size, new_size, new_size)
            \o << EvSetSize(new_size), EvSetCapacity(cap) >>)
    \/ Returns(cl, "bad_alloc", NoValue, << EvBadAlloc(new_size) >>)

\* The body the two resize overloads share; v is T() or the fill value x.
resize_to(cl, new_size, v) ==
    /\ alive
    /\ IF data = Null THEN resize_unallocated(cl, new_size, v)
       ELSE IF new_size = xvector_size THEN Returns(cl, "ok", NoValue, << >>)
       ELSE IF new_size < xvector_size THEN resize_smaller(cl, new_size)
       ELSE IF new_size <= xvector_capacity THEN resize_within_capacity(cl, new_size, v)
       ELSE resize_grow(cl, new_size, v)

\* resize(size_t new_size)
resize(new_size) ==
    resize_to([op |-> "resize", pos |-> new_size, x |-> NoValue], new_size, DefaultT)

\* resize(size_t new_size, const T &x)
resize_fill(new_size, x) ==
    resize_to([op |-> "resize_fill", pos |-> new_size, x |-> x], new_size, x)

\* if (pos > 0 || pos <= xvector_size) of at: true when at throws.
at_throws(pos) == pos > 0 \/ pos <= xvector_size

\* The body the two at overloads share.
at_body(cl, pos) ==
    /\ alive
    /\ IF at_throws(pos)
       THEN Returns(cl, "out_of_range", NoValue, << >>)
       ELSE \E v \in (IF pos < xvector_size THEN {mem[pos]} ELSE Values) :
               Returns(cl, "ok", v, << >>)

\* T &at(size_t pos)
at(pos) == at_body([op |-> "at", pos |-> pos, x |-> NoValue], pos)

\* const T &at(size_t pos) const
at_const(pos) == at_body([op |-> "at_const", pos |-> pos, x |-> NoValue], pos)

\* ~Xvector()
destructor ==
    /\ alive
    /\ alive' = FALSE
    /\ call' = [op |-> "~Xvector", pos |-> 0, x |-> NoValue]
    /\ result' = "ok"
    /\ ret' = NoValue
    /\ events' = IF data # Null
                 THEN destroy_elems(data, xvector_capacity, block_n)
                      \o << EvDeallocate(data, xvector_capacity, block_n) >>
                 ELSE << >>
    /\ appended' = [only |-> FALSE, xs |-> << >>]
    /\ UNCHANGED <<data, xvector_size, xvector_capacity, mem, block_n, leaked>>

Next ==
    \/ \E x \in Values : push_back_move(x) /\ UNCHANGED main_vars
    \/ \E x \in Values : push_back_copy(x) /\ UNCHANGED main_vars
    \/ pop_back /\ UNCHANGED main_vars
    \/ clear /\ UNCHANGED main_vars
    \/ \E pos \in Positions : erase(pos) /\ UNCHANGED main_vars
    \/ \E new_size \in Sizes : resize(new_size) /\ UNCHANGED main_vars
    \/ \E new_size \in Sizes, x \in Values : resize_fill(new_size, x) /\ UNCHANGED main_vars
    \/ \E pos \in Positions : at(pos) /\ UNCHANGED main_vars
    \/ \E pos \in Positions : at_const(pos) /\ UNCHANGED main_vars
    \/ destructor /\ UNCHANGED main_vars

Spec == Init /\ [][Next]_vars

\* ------------------------------------------------------------------ main

\* Xvector<string> words; with infile opened on a token file.
MainInit ==
    /\ Constructed
    /\ infile \in {[words |-> ws, pos |-> 0] : ws \in TokenFiles}
    /\ outfile = << >>
    /\ pc = "read"
    /\ it = 0

\* while (infile >> word) words.push_back(word);  An exception leaves main.
main_read ==
    /\ pc = "read"
    /\ infile.pos < Len(infile.words)
    /\ push_back_copy(infile.words[infile.pos + 1])
    /\ infile' = [infile EXCEPT !.pos = infile.pos + 1]
    /\ pc' = IF result' = "ok" THEN "read" ELSE "terminated"
    /\ UNCHANGED <<outfile, it>>

\* infile >> word fails at the end of the file; the range-for starts at begin().
main_read_end ==
    /\ pc = "read"
    /\ infile.pos = Len(infile.words)
    /\ pc' = "write"
    /\ it' = 0
    /\ UNCHANGED <<xvector_vars, infile, outfile>>

\* outfile << i; if (i != *(words.end() - 1)) outfile << '\n';
main_write ==
    /\ pc = "write"
    /\ it # xvector_size
    /\ outfile' = outfile \o << mem[it] >>
                   \o (IF mem[it] # mem[xvector_size - 1] THEN << Newline >> ELSE << >>)
    /\ it' = it + 1
    /\ UNCHANGED <<xvector_vars, infile, pc>>

\* The range-for ends at end(); infile.close(); main returns and words is destroyed.
main_return ==
    /\ pc = "write"
    /\ it = xvector_size
    /\ destructor
    /\ pc' = "done"
    /\ UNCHANGED <<infile, outfile, it>>

MainNext ==
    \/ main_read
    \/ main_read_end
    \/ main_write
    \/ main_return

SpecMain == MainInit /\ [][MainNext]_vars

\* ---------------------------------------------------------------- claims

PushOps == {"push_back_copy", "push_back_move"}

AtOps == {"at", "at_const"}

\* The call made no allocate (successful or not) and no deallocate.
NoAllocatorCall(ev) ==
    \A j \in DOMAIN ev : ev[j].k \notin {"allocate", "bad_alloc", "deallocate"}

\* xs without its element at 0-based position pos.
Removed(xs, pos) ==
    [j \in 1 .. (Len(xs) - 1) |-> IF j <= pos THEN xs[j] ELSE xs[j + 1]]

\* The least power of two that is >= n (0 for n = 0): the capacity trace 1, 2, 4, 8.
RECURSIVE DoubledUpTo(_, _)
DoubledUpTo(c, n) == IF c >= n THEN c ELSE DoubledUpTo(2 * c, n)
TraceCapacity(n) == IF n = 0 THEN 0 ELSE DoubledUpTo(1, n)

\* C1: in every state reachable by public calls, size() <= capacity().
C1_SizeAtMostCapacity == size <= capacity

\* C1 witness: a push_back has just filled a vector of capacity > 1 to the brim.
C1_Witness ==
    /\ call.op \in PushOps /\ result = "ok"
    /\ size = capacity /\ capacity > 1

\* C2: while the vector lives, data is nullptr if and only if capacity() = 0.
C2_NullIffCapacityZero == alive => ((data = Null) <=> (capacity = 0))

\* C3: after N push_back(const T&) calls on a new vector, size() = N and iteration
\* yields the N values in the order they were appended.
C3_AppendOrder ==
    appended.only => (size = Len(appended.xs) /\ Elements = appended.xs)

\* C3 witness: three values were appended, reallocating twice on the way.
C3_Witness == appended.only /\ appended.xs = <<1, 0, 1>> /\ capacity = 4

\* C4: at(pos) throws out_of_range if and only if pos >= size(), and returns the
\* element in slot pos otherwise.
C4_AtThrowsIffOutOfRange ==
    call.op \in AtOps =>
        /\ (result = "out_of_range") <=> (call.pos >= size)
        /\ (call.pos < size) => (result = "ok" /\ ret = mem[call.pos])

\* C5: clear() sets size() to 0 and leaves capacity() and the storage block as they
\* were, and the push_back after a clear() that left capacity() > 0 calls the
\* allocator neither to allocate nor to deallocate.
C5_ClearKeepsStorage ==
    [][/\ (call'.op = "clear") =>
            (size' = 0 /\ capacity' = capacity /\ data' = data /\ block_n' = block_n)
       /\ (call.op = "clear" /\ capacity > 0 /\ call'.op \in PushOps) =>
            NoAllocatorCall(events')]_vars

\* C6: erase(pos) with pos < size() removes the element at pos, shifts the later
\* elements left by one and leaves size() one smaller.
C6_EraseRemoves ==
    [][(call'.op = "erase" /\ call'.pos < size) =>
          (size' = size - 1 /\ Elements' = Removed(Elements, call'.pos))]_vars

\* C7: erase(pos) with pos >= size() reports a failure and leaves size(),
\* capacity(), the storage block and the live elements as they were.
C7_EraseOutOfRangeFails ==
    [][(call'.op = "erase" /\ call'.pos >= size) =>
          /\ result' \in {"out_of_range", "invalid_operation"}
          /\ size' = size /\ capacity' = capacity
          /\ data' = data /\ block_n' = block_n /\ mem' = mem]_vars

\* C8: a push_back at capacity 0 yields capacity 1, a push_back at size() =
\* capacity() > 0 yields twice the capacity, and the capacities of a run of
\* push_back calls on a new vector are 1, 2, 4, 8, ...
C8_GeometricGrowth ==
    /\ [][(call'.op \in PushOps /\ result' = "ok") =>
             /\ (capacity = 0) => (capacity' = 1)
             /\ (size = capacity /\ capacity > 0) => (capacity' = 2 * capacity)]_vars
    /\ [](appended.only => capacity = TraceCapacity(size))

\* C8 witness: the third push_back of a run has doubled the capacity from 2 to 4.
C8_Witness ==
    /\ appended.only /\ size = 3 /\ capacity = 4
    /\ \E j \in DOMAIN events : events[j] = EvSetCapacity(4)

\* C9: a push_back made while size() < capacity() calls the allocator for no new
\* block and leaves capacity() as it was.
C9_GrowsOnlyWhenFull ==
    [][(call'.op \in PushOps /\ size < capacity) =>
          (capacity' = capacity /\ NoAllocatorCall(events'))]_vars

\* C10: push_back(T&&) stores x in slot old-size(), grows size() by one and leaves
\* the elements below old-size() as they were, the first insertion included.
C10_MovePushStores ==
    [][(call'.op = "push_back_move" /\ result' = "ok") =>
          /\ size' = size + 1
          /\ mem'[size] = call'.x
          /\ \A i \in 0 .. (size - 1) : mem'[i] = mem[i]]_vars

ResizeOps == {"resize", "resize_fill"}

\* C11: pop_back on an empty vector changes nothing; on a vector of size n > 0 it
\* sets size() to n - 1 and leaves capacity(), the storage block and the elements
\* at [0, n - 1) as they were.
C11_PopBackFrame ==
    [][(call'.op = "pop_back") =>
          /\ result' = "ok"
          /\ capacity' = capacity /\ data' = data /\ block_n' = block_n
          /\ leaked' = leaked /\ NoAllocatorCall(events')
          /\ IF size = 0 THEN size' = 0 /\ mem' = mem
             ELSE /\ size' = size - 1
                  /\ \A i \in 0 .. (size - 2) : mem'[i] = mem[i]]_vars

\* C11 witness: pop_back has just taken a vector of three elements to two.
C11_Witness ==
    /\ call.op = "pop_back" /\ events = << EvSetSize(2) >>
    /\ size = 2 /\ capacity = 4

\* C12: resize(new_size) and resize(new_size, x) with new_size < size() set size()
\* to new_size, leave capacity() as it was, call the allocator neither to allocate
\* nor to deallocate, and leave the elements at [0, new_size) as they were.
C12_ResizeSmallerFrame ==
    [][(call'.op \in ResizeOps /\ call'.pos < size) =>
          /\ result' = "ok"
          /\ size' = call'.pos
          /\ capacity' = capacity /\ data' = data /\ block_n' = block_n
          /\ NoAllocatorCall(events')
          /\ \A i \in 0 .. (call'.pos - 1) : mem'[i] = mem[i]]_vars

\* C12 witness: resize(1, x) has just truncated a longer vector of capacity 4.
C12_Witness ==
    /\ call.op = "resize_fill" /\ call.pos = 1 /\ events = << EvSetSize(1) >>
    /\ size = 1 /\ capacity = 4

\* The value a resize call fills new slots with: T() or its argument x.
FillValue(cl) == IF cl.op = "resize" THEN DefaultT ELSE cl.x

\* C13: resize(new_size, x) with new_size > size() keeps the old elements, appends
\* new_size - size() copies of x (of T() for resize(new_size)), sets size() to
\* new_size, and leaves capacity() as it was when new_size <= capacity() but makes
\* it exactly new_size when new_size > capacity().
C13_ResizeLargerFills ==
    [][(call'.op \in ResizeOps /\ call'.pos > size /\ result' = "ok") =>
          /\ size' = call'.pos
          /\ Elements' = Elements \o [j \in 1 .. (call'.pos - size) |-> FillValue(call')]
          /\ capacity' = IF call'.pos <= capacity THEN capacity ELSE call'.pos]_vars

\* C14: when the allocator fails, the operation surfaces the failure and size(),
\* capacity(), the storage pointer and every live element are as before the call.
C14_BadAllocLeavesState ==
    [][(result' = "bad_alloc" /\ call'.op \in PushOps \cup ResizeOps) =>
          /\ size' = size /\ capacity' = capacity
          /\ data' = data /\ block_n' = block_n /\ mem' = mem]_vars

\* The blocks that are allocated and not deallocated: the leaked ones, and the one
\* data refers to until the destructor has released it.
AllocatedBlocks == leaked + (IF alive /\ data # Null THEN 1 ELSE 0)

\* Every store of the call went to a slot inside the block it was made to.
StoresInBounds(ev) ==
    \A j \in DOMAIN ev : ev[j].k = "write" => ev[j].n < ev[j].m

\* C15: capacity() is the slot count the owned block was allocated with, and every
\* element store made by push_back or resize goes to a slot below that count.
C15_CapacityIsBlockSize ==
    /\ alive => capacity = block_n
    /\ call.op \in PushOps \cup ResizeOps => StoresInBounds(events)

\* C16: between calls at most one block is allocated and not deallocated, the one
\* data refers to (no block is leaked); after the destructor none is.
C16_NoLeak ==
    /\ leaked = 0
    /\ alive => AllocatedBlocks <= 1
    /\ ~alive => AllocatedBlocks = 0

\* C17: every deallocate(handle, n) passes a handle that is allocated, with the n
\* it was allocated with.
C17_DeallocateMatches ==
    \A j \in DOMAIN events :
        events[j].k = "deallocate" => (events[j].b # Null /\ events[j].n = events[j].m)

\* The places in a call's events of the events of kind k.
At(ev, k) == {j \in DOMAIN ev : ev[j].k = k}

\* The places where a call assigned the data or the capacity field.
Adoptions(ev) == At(ev, "set_data") \cup At(ev, "set_capacity")

\* C18: a reallocation allocates the new block, copies the live elements, destroys
\* them in the old block, deallocates the old block and only then assigns the new
\* block and capacity to the fields; no field is assigned before the allocation
\* has succeeded.
C18_ReallocationOrder ==
    (call.op \in PushOps \cup ResizeOps) =>
       /\ \A f \in At(events, "bad_alloc"), s \in Adoptions(events) : ~(s < f)
       /\ (At(events, "deallocate") # {}) =>
             /\ \A a \in At(events, "allocate"), d \in At(events, "deallocate") : a < d
             /\ \A q \in At(events, "destroy") :
                   /\ \A a \in At(events, "allocate"), d \in At(events, "deallocate") :
                         a < q /\ q < d
                   /\ \E w \in At(events, "write") :
                         w < q /\ events[w].n = events[q].n /\ events[w].b # events[q].b
             /\ \A d \in At(events, "deallocate"), s \in Adoptions(events) : d < s

\* The slots whose element a call ran the destructor of.
DestroyedSlots(ev) == {ev[j].n : j \in At(ev, "destroy")}

\* C19: pop_back on a non-empty vector destroys the element at size() - 1, clear()
\* and the destructor destroy exactly the slots [0, size()), and no call destroys
\* a slot at or past size().
C19_DestroysLiveSlots ==
    [][/\ (call'.op = "pop_back" /\ size > 0) => DestroyedSlots(events') = {size - 1}
       /\ (call'.op \in {"clear", "~Xvector"}) =>
             DestroyedSlots(events') = 0 .. (size - 1)
       /\ \A n \in DestroyedSlots(events') : n < size]_vars

\* ws written with a separator between each pair of consecutive tokens.
Joined(ws) ==
    IF Len(ws) = 0 THEN << >>
    ELSE [j \in 1 .. (2 * Len(ws) - 1) |->
             IF j % 2 = 1 THEN ws[(j + 1) \div 2] ELSE Newline]

\* C20: main writes the tokens in arrival order with a separator after each but
\* the last: N - 1 separators for N >= 1 tokens, whatever tokens are equal.
C20_OutputIsJoined ==
    (pc = "done") =>
        /\ outfile = Joined(infile.words)
        /\ Cardinality({j \in DOMAIN outfile : outfile[j] = Newline})
              = IF Len(infile.words) = 0 THEN 0 ELSE Len(infile.words) - 1
====
